---- MODULE Spec2Model ----
(***************************************************************************)
(* Model of src/benchmark.go: the benchmark evaluation pipeline            *)
(* (Init_Env, Init_Benchmarks, Get_Unevaluated_Benchmarks,                 *)
(* Evaluate_Benchmark, main) and the perf-stat report parser               *)
(* (get_benchmark_results).                                                *)
(*                                                                         *)
(* Strings are sequences of one-character strings, so that suffix tests,   *)
(* path concatenation, the two regular expressions and the digit-by-digit  *)
(* float conversion are computed as the code computes them.                *)
(***************************************************************************)
EXTENDS Integers, Sequences, FiniteSets, TLC

(***************************************************************************)
(* Bounds of the model.                                                    *)
(***************************************************************************)
\* longest report file (in lines) enumerated for the parser
MaxLines == 3
\* number of entries of the source root
MaxBench == 2
\* number of consecutive runs of main over the same directories
MaxRuns == 2
\* the longest string of the enumerated inputs of get_float
MaxChars == 3

(***************************************************************************)
(* Characters and strings.                                                 *)
(***************************************************************************)
\* the class [0-9] of the regular expressions
Digit == {"0", "1", "2", "3", "4", "5", "6", "7", "8", "9"}

\* A rune outside ASCII is written as one token.  ArabicThree is U+0663
\* ARABIC-INDIC DIGIT THREE, a rune of the Unicode category Nd.
ArabicThree == "U+0663"

\* unicode.IsDigit: the runes of category Nd the model's alphabet holds
IsDigit(r) == r \in Digit \cup {ArabicThree}

\* the code point of a digit rune
CodePoint(d) ==
    CASE d = "0" -> 48 [] d = "1" -> 49 [] d = "2" -> 50 [] d = "3" -> 51
      [] d = "4" -> 52 [] d = "5" -> 53 [] d = "6" -> 54 [] d = "7" -> 55
      [] d = "8" -> 56 [] d = "9" -> 57 [] d = ArabicThree -> 1635

\* the value of  byte(d - '0')  for a digit rune d: the conversion of a
\* rune to byte keeps the low eight bits
DigitVal(d) == (CodePoint(d) - CodePoint("0")) % 256

\* the regular expression class \s (the lines of the model hold no newline)
IsSpace(r) == r \in {" ", "\t"}

\* strings.HasSuffix
HasSuffix(s, suffix) ==
    /\ Len(s) >= Len(suffix)
    /\ SubSeq(s, Len(s) - Len(suffix) + 1, Len(s)) = suffix

SetMin(S) == CHOOSE x \in S : \A y \in S : x <= y
SetMax(S) == CHOOSE x \in S : \A y \in S : x >= y

\* path(elements...): the elements joined by "/"
RECURSIVE path(_)
path(elements) ==
    IF Len(elements) = 0 THEN <<>>
    ELSE IF Len(elements) = 1 THEN elements[1]
    ELSE path(SubSeq(elements, 1, Len(elements) - 1))
            \o <<"/">> \o elements[Len(elements)]

(***************************************************************************)
(* Floating point values.  A float64 is kept as the exact quotient         *)
(* num / den the code computes (value / math.Pow10(decimal_offset)); the   *)
(* digit strings of the model are short enough for float64 to be exact on  *)
(* the integer part and correctly rounded on the division.                 *)
(***************************************************************************)
RECURSIVE Pow10(_)
Pow10(n) == IF n = 0 THEN 1 ELSE 10 * Pow10(n - 1)

Float(num, den) == [num |-> num, den |-> den]
Zero == Float(0, 1)
FloatEq(a, b) == a.num * b.den = b.num * a.den

(***************************************************************************)
(* get_float (lines 209-234).                                              *)
(***************************************************************************)
\* the filtering loop, lines 216-226, over the runes i..Len(match)
RECURSIVE FilterRunes(_, _, _)
FilterRunes(match, i, acc) ==
    IF i > Len(match) THEN acc
    ELSE LET r == match[i] IN
         IF IsDigit(r)
         THEN FilterRunes(match, i + 1,
                 [acc EXCEPT !.filtered = Append(@, r),
                             !.decimal_offset =
                                 IF acc.found_decimal THEN @ + 1 ELSE @])
         ELSE IF r = "."
         THEN FilterRunes(match, i + 1, [acc EXCEPT !.found_decimal = TRUE])
         ELSE FilterRunes(match, i + 1, acc)

\* the assembling loop, lines 229-231
RECURSIVE Assemble(_, _, _)
Assemble(filtered, i, value) ==
    IF i > Len(filtered) THEN value
    ELSE Assemble(filtered, i + 1, value * 10 + DigitVal(filtered[i]))

\* get_float returning the assembled digits without the division by
\* 10^decimal_offset
get_float_undivided(match) ==
    LET Result(f) == Float(Assemble(f.filtered, 1, 0), 1)
    IN  Result(FilterRunes(match, 1,
                   [filtered |-> <<>>, found_decimal |-> FALSE,
                    decimal_offset |-> 0]))

get_float(match) ==
    LET Result(f) == Float(Assemble(f.filtered, 1, 0), Pow10(f.decimal_offset))
    IN  Result(FilterRunes(match, 1,
                   [filtered |-> <<>>, found_decimal |-> FALSE,
                    decimal_offset |-> 0]))

(***************************************************************************)
(* The two regular expressions (lines 203-204) and match_exp (237-245).    *)
(* regexp.FindStringSubmatch returns the leftmost match, and among the     *)
(* matches at one start the one the greedy operators prefer.               *)
(***************************************************************************)
match_duration_exp == "([0-9],?)+\\s*ns"
match_uncertainty_exp == "[0-9]+.[0-9]+%"

\* ([0-9],?)+ taken greedily from position i: the position after the groups
RECURSIVE SkipGroups(_, _)
SkipGroups(s, i) ==
    IF i <= Len(s) /\ s[i] \in Digit
    THEN IF i + 1 <= Len(s) /\ s[i + 1] = ","
         THEN SkipGroups(s, i + 2)
         ELSE SkipGroups(s, i + 1)
    ELSE i

RECURSIVE SkipSpace(_, _)
SkipSpace(s, i) ==
    IF i <= Len(s) /\ IsSpace(s[i]) THEN SkipSpace(s, i + 1) ELSE i

RECURSIVE SkipDigits(_, _)
SkipDigits(s, i) ==
    IF i <= Len(s) /\ s[i] \in Digit THEN SkipDigits(s, i + 1) ELSE i

\* the last position of the match of the duration expression that starts at
\* i, or 0.  A digit group is followed by a digit, a comma or the end of the
\* groups, so the greedy split is the only one that can match.
DurationEnd(s, i) ==
    LET e == SkipGroups(s, i)
        w == SkipSpace(s, e)
    IN  IF e > i /\ w + 1 <= Len(s) /\ s[w] = "n" /\ s[w + 1] = "s"
        THEN w + 1 ELSE 0

\* the last position of the match of the uncertainty expression that starts
\* at i, or 0: digits up to j-1, any character at j, digits, then "%".  The
\* greedy first [0-9]+ prefers the largest j.
UncertaintyEnd(s, i) ==
    LET J == {j \in (i + 1)..Len(s) :
                 /\ SkipDigits(s, i) >= j
                 /\ SkipDigits(s, j + 1) > j + 1
                 /\ SkipDigits(s, j + 1) <= Len(s)
                 /\ s[SkipDigits(s, j + 1)] = "%"}
    IN  IF J = {} THEN 0 ELSE SkipDigits(s, SetMax(J) + 1)

ExpEnd(s, i, exp) ==
    IF exp = match_duration_exp THEN DurationEnd(s, i) ELSE UncertaintyEnd(s, i)

\* match_exp: [ok, match]; ok = FALSE stands for the "No match found!" error
match_exp(line, exp) ==
    LET Leftmost(I) ==
            IF I = {} THEN [ok |-> FALSE, match |-> <<>>]
            ELSE LET From(i) ==
                         [ok |-> TRUE,
                          match |-> SubSeq(line, i, ExpEnd(line, i, exp))]
                 IN  From(SetMin(I))
    IN  Leftmost({i \in 1..Len(line) : ExpEnd(line, i, exp) > 0})

(***************************************************************************)
(* Errors.  An error value keeps the text the code puts in front           *)
(* (prefix), the names of the benchmarks its message contains (mentions)   *)
(* and the innermost message (cause).                                      *)
(***************************************************************************)
nil == [prefix |-> "", mentions |-> {}, cause |-> ""]
NewError(cause, mentions) == [prefix |-> "", mentions |-> mentions, cause |-> cause]
\* errors.New(prefix + err.Error()) with a prefix that names no benchmark
Wrap_plain(prefix, who, err) ==
    [prefix |-> prefix, mentions |-> err.mentions, cause |-> err.cause]

\* errors.New(prefix + err.Error()), the prefix naming the benchmarks in who
Wrap(prefix, who, err) ==
    [prefix |-> prefix, mentions |-> who \cup err.mentions, cause |-> err.cause]

ErrNoMatch == "No match found!"
ErrIncompleteReport == "Unable to locate runtime and/or uncertainty!"
\* the *PathError of os.Open; its text holds the path of the file
ErrOpen == "open: no such file or directory"
ErrReadDir == "readdir: not a directory or no such directory"
ErrMkdir == "mkdir: permission denied"
ErrExist == "mkdir: file exists"
ErrNoSourceFiles == "No source files found to compile"
ErrExit == "exit status 1"
ErrExecutableNotFound == "Executable not found"

(***************************************************************************)
(* Report files.  A report is the sequence of its newline-terminated       *)
(* lines; reader.ReadBytes('\n') returns them one by one and then an empty *)
(* slice together with io.EOF.                                             *)
(***************************************************************************)
LineDuration == <<"1", ",", "2", "3", "4", ",", "5", "6", "7", " ", "n", "s">>
LineUncertainty == <<"3", ".", "4", "5", "%">>
\* the layout perf stat writes: both figures on the duration_time line
LineBoth ==
    <<"1", ",", "2", "3", "4", ",", "5", "6", "7", " ", "n", "s", " ",
      "(", "+", "-", " ", "3", ".", "4", "5", "%", ")">>
LineOther == <<"#", " ", "p", "e", "r", "f">>
LineDuration2 == <<"5", "0", " ", "n", "s">>
LineUncertainty2 == <<"0", ".", "5", "%">>
LineBoth2 == <<"5", "0", "n", "s", " ", "0", ".", "5", "%">>

Lines ==
    {LineDuration, LineUncertainty, LineBoth, LineOther, LineDuration2,
     LineUncertainty2, LineBoth2}

RECURSIVE SeqsUpTo(_, _)
SeqsUpTo(S, n) ==
    IF n = 0 THEN {<<>>}
    ELSE LET T == SeqsUpTo(S, n - 1)
         IN  T \cup {Append(t, x) : t \in {u \in T : Len(u) = n - 1}, x \in S}

Reports == SeqsUpTo(Lines, MaxLines)

(***************************************************************************)
(* get_benchmark_results, the scanning loop (lines 259-296).               *)
(* The loop state: the Benchmark's two fields, found_params, more, the     *)
(* number of ReadBytes calls made (reads) and whether line 294 broke out.  *)
(***************************************************************************)
ScanStart(runtime, uncertainty) ==
    [Runtime |-> runtime, Uncertainty |-> uncertainty, found_params |-> 0,
     more |-> TRUE, reads |-> 0, broke |-> FALSE]

\* the loop condition of line 261
Scanning(st) == st.more /\ ~st.broke

\* lines 284-295: the line matched the duration expression
ScanUncertainty(s1, u) ==
    IF ~u.ok THEN s1
    ELSE IF s1.found_params + 1 >= 2
    THEN [s1 EXCEPT !.Uncertainty = get_float(u.match),
                    !.found_params = @ + 1, !.broke = TRUE]
    ELSE [s1 EXCEPT !.Uncertainty = get_float(u.match),
                    !.found_params = @ + 1]

\* lines 275-282 followed by a continue: the uncertainty expression is not
\* tried on a line that matched the duration expression
ScanDuration_only(s0, line, d) ==
    IF ~d.ok THEN s0
    ELSE [s0 EXCEPT !.Runtime = get_float(d.match), !.found_params = @ + 1]

\* lines 275-295
ScanDuration(s0, line, d) ==
    IF ~d.ok THEN s0
    ELSE ScanUncertainty([s0 EXCEPT !.Runtime = get_float(d.match),
                                    !.found_params = @ + 1],
                         match_exp(line, match_uncertainty_exp))

\* one iteration of the loop body, lines 262-295
ScanLine(st, file) ==
    LET Body(eof, line) ==
            ScanDuration([st EXCEPT !.reads = @ + 1, !.more = ~eof], line,
                         match_exp(line, match_duration_exp))
    IN  IF st.reads >= Len(file) THEN Body(TRUE, <<>>)
        ELSE Body(FALSE, file[st.reads + 1])

\* the check after the loop, lines 299-303
ScanResult(st) ==
    IF st.found_params # 2 THEN NewError(ErrIncompleteReport, {}) ELSE nil

RECURSIVE ScanAll(_, _)
ScanAll(st, file) ==
    IF Scanning(st) THEN ScanAll(ScanLine(st, file), file) ELSE st

(***************************************************************************)
(* The file system.                                                        *)
(*   fs.cwd    the kind of the entries Stats and Bin of the working        *)
(*             directory: "absent", "file" or "dir"                        *)
(*   fs.src    the kind of the source root                                 *)
(*   fs.root   the entries of the source root, entry i named EntryName(i): *)
(*             a plain file, or a sub-directory with its own entries       *)
(*   fs.stats  the files of the results directory: file name -> report     *)
(*   fs.bin    the names of the entries of the binaries directory          *)
(***************************************************************************)
Chr(i) ==
    CASE i = 0 -> "0" [] i = 1 -> "1" [] i = 2 -> "2" [] i = 3 -> "3"
      [] i = 4 -> "4" [] i = 5 -> "5" [] i = 6 -> "6" [] i = 7 -> "7"
      [] i = 8 -> "8" [] i = 9 -> "9"

\* the name of entry i of the source root; ioutil.ReadDir sorts by file
\* name, which for these names is the order of i
EntryName(i) == <<"b", Chr(i)>>
Entries == 1..MaxBench

Dot == <<".">>
SuffixC == <<".", "c">>
SuffixTxt == <<".", "t", "x", "t">>

\* main, line 459 (path components kept as single tokens)
cfg ==
    [Src |-> path(<<<<"tacle-bench">>, <<"bench">>, <<"sequential">>>>),
     Stats |-> <<"s", "t", "a", "t", "s">>,
     Bin |-> <<"b", "i", "n">>]

File(name) == [name |-> name, isDir |-> FALSE]
Dir(name) == [name |-> name, isDir |-> TRUE]

\* the two contents a benchmark's source directory has in the model, in
\* ReadDir order: one with a C file, one whose only *.c entry is a directory
SourcesWithC == <<File(<<"m", ".", "c">>), File(<<"m", ".", "h">>)>>
SourcesWithoutC == <<File(<<"m", ".", "h">>), Dir(<<"o", "l", "d", ".", "c">>)>>

RootEntry == [isDir : {FALSE}, files : {<<>>}]
                \cup [isDir : {TRUE}, files : {SourcesWithC, SourcesWithoutC}]

Kinds == {"absent", "file", "dir"}

\* the elements of a finite set of numbers as an ascending sequence
RECURSIVE Ascending(_)
Ascending(S) ==
    IF S = {} THEN <<>> ELSE Append(Ascending(S \ {SetMax(S)}), SetMax(S))

MapSeq(s, F(_)) == [k \in 1..Len(s) |-> F(s[k])]

\* ioutil.ReadDir: [ok, files], files the os.FileInfo list sorted by name
ReadDir(directory, fs) ==
    LET fail == [ok |-> FALSE, files |-> <<>>]
        InStats(i) == EntryName(i) \o SuffixTxt \in DOMAIN fs.stats
        InBin(i) == EntryName(i) \in fs.bin
        StatsFile(i) == File(EntryName(i) \o SuffixTxt)
        BinFile(i) == File(EntryName(i))
        RootFile(i) == [name |-> EntryName(i), isDir |-> fs.root[i].isDir]
        Sub == {i \in Entries : fs.src = "dir" /\ fs.root[i].isDir
                                 /\ directory = path(<<cfg.Src, EntryName(i)>>)}
    IN  IF directory = Dot
        THEN [ok |-> TRUE,
              files |->
                  (IF fs.cwd.bin = "absent" THEN <<>>
                   ELSE <<[name |-> cfg.Bin, isDir |-> fs.cwd.bin = "dir"]>>)
                  \o
                  (IF fs.cwd.stats = "absent" THEN <<>>
                   ELSE <<[name |-> cfg.Stats, isDir |-> fs.cwd.stats = "dir"]>>)]
        ELSE IF directory = cfg.Stats
        THEN IF fs.cwd.stats # "dir" THEN fail
             ELSE [ok |-> TRUE,
                   files |-> MapSeq(Ascending({i \in Entries : InStats(i)}), StatsFile)]
        ELSE IF directory = cfg.Bin
        THEN IF fs.cwd.bin # "dir" THEN fail
             ELSE [ok |-> TRUE,
                   files |-> MapSeq(Ascending({i \in Entries : InBin(i)}), BinFile)]
        ELSE IF directory = cfg.Src
        THEN IF fs.src # "dir" THEN fail
             ELSE [ok |-> TRUE,
                   files |-> MapSeq(Ascending(Entries), RootFile)]
        ELSE IF Sub # {}
        THEN [ok |-> TRUE, files |-> fs.root[CHOOSE i \in Sub : TRUE].files]
        ELSE fail

\* os.Mkdir(name, 0777) in the working directory: [err, fs].  It fails when
\* the entry exists already, and for the names in denied (no permission).
Mkdir(name, fs, denied) ==
    IF name \in denied THEN [err |-> NewError(ErrMkdir, {}), fs |-> fs]
    ELSE IF name = cfg.Stats /\ fs.cwd.stats = "absent"
    THEN [err |-> nil, fs |-> [fs EXCEPT !.cwd.stats = "dir"]]
    ELSE IF name = cfg.Bin /\ fs.cwd.bin = "absent"
    THEN [err |-> nil, fs |-> [fs EXCEPT !.cwd.bin = "dir"]]
    ELSE [err |-> NewError(ErrExist, {}), fs |-> fs]

\* the name a path has inside directory, or <<>> when it does not lie there
NameIn(file_path, directory) ==
    LET n == Len(directory) + 1
    IN  IF Len(file_path) > n /\ SubSeq(file_path, 1, n) = directory \o <<"/">>
        THEN SubSeq(file_path, n + 1, Len(file_path)) ELSE <<>>

\* os.Open of a report: [ok, content]
Open(file_path, fs) ==
    LET name == NameIn(file_path, cfg.Stats)
    IN  IF fs.cwd.stats = "dir" /\ name \in DOMAIN fs.stats
        THEN [ok |-> TRUE, content |-> fs.stats[name]]
        ELSE [ok |-> FALSE, content |-> <<>>]

\* a process creating or replacing the file at file_path
WriteFile(file_path, content, fs) ==
    LET inStats == NameIn(file_path, cfg.Stats)
        inBin == NameIn(file_path, cfg.Bin)
    IN  IF inStats # <<>> /\ fs.cwd.stats = "dir"
        THEN [fs EXCEPT !.stats =
                 [f \in DOMAIN fs.stats \cup {inStats} |->
                     IF f = inStats THEN content ELSE fs.stats[f]]]
        ELSE IF inBin # <<>> /\ fs.cwd.bin = "dir"
        THEN [fs EXCEPT !.bin = @ \cup {inBin}]
        ELSE fs

(***************************************************************************)
(* Internal package functions.                                             *)
(***************************************************************************)
\* directory_contains_file with a loop that does not compare the names
directory_contains_file_any(name, directory, fs) ==
    LET Search(d) ==
            IF ~d.ok THEN [found |-> FALSE, err |-> NewError(ErrReadDir, {})]
            ELSE [found |-> Len(d.files) > 0, err |-> nil]
    IN  Search(ReadDir(directory, fs))

\* directory_contains_file (lines 83-94): [found, err]
directory_contains_file(name, directory, fs) ==
    LET Search(d) ==
            IF ~d.ok THEN [found |-> FALSE, err |-> NewError(ErrReadDir, {})]
            ELSE [found |-> \E k \in 1..Len(d.files) : d.files[k].name = name,
                  err |-> nil]
    IN  Search(ReadDir(directory, fs))

\* get_files_by_suffix without the test of lines 110-112 that skips
\* directories
get_files_by_suffix_with_directories(directory, suffix, fs) ==
    LET Wanted(f) == HasSuffix(f.name, suffix)
        Full(f) == directory \o <<"/">> \o f.name
        Sort(d) ==
            IF ~d.ok THEN [bag |-> <<>>, err |-> NewError(ErrReadDir, {})]
            ELSE [bag |-> MapSeq(SelectSeq(d.files, Wanted), Full), err |-> nil]
    IN  Sort(ReadDir(directory, fs))

\* get_files_by_suffix (lines 97-121): [bag, err]
get_files_by_suffix(directory, suffix, fs) ==
    LET Wanted(f) == ~f.isDir /\ HasSuffix(f.name, suffix)
        Full(f) == directory \o <<"/">> \o f.name
        Sort(d) ==
            IF ~d.ok THEN [bag |-> <<>>, err |-> NewError(ErrReadDir, {})]
            ELSE [bag |-> MapSeq(SelectSeq(d.files, Wanted), Full), err |-> nil]
    IN  Sort(ReadDir(directory, fs))

\* get_compile_command (lines 124-146): [cmd, err]; cmd holds the compiler,
\* the argument of -o and the source files
get_compile_command(compiler, name, src_dir, bin_dir, fs) ==
    LET executable_file_path == path(<<bin_dir, name>>)
        Command(s) ==
            IF s.err # nil THEN [cmd |-> <<>>, err |-> s.err]
            ELSE IF Len(s.bag) = 0
            THEN [cmd |-> <<>>, err |-> NewError(ErrNoSourceFiles, {})]
            ELSE [cmd |-> [name |-> compiler, o |-> executable_file_path,
                           sources |-> s.bag],
                  err |-> nil]
    IN  Command(get_files_by_suffix(src_dir, SuffixC, fs))

(***************************************************************************)
(* The external processes.  What the compiler and the measurement tool do  *)
(* is the environment's choice: an exit status, and whether the output     *)
(* file was written.                                                       *)
(***************************************************************************)
ReportPerf == <<LineOther, LineBoth>>
ReportSplit == <<LineDuration, LineUncertainty>>
ReportTwoDurations == <<LineDuration, LineDuration2>>
ToolReports == {ReportPerf, ReportSplit, ReportTwoDurations}

CompilerOutcomes ==
    {[exit |-> 0, wrote |-> TRUE], [exit |-> 0, wrote |-> FALSE],
     [exit |-> 1, wrote |-> FALSE]}

\* perf stat exits with the status of the program it measured, and writes
\* its report also when that status is not zero
PerfOutcomes ==
    [exit : {0}, wrote : {TRUE}, report : ToolReports]
        \cup [exit : {0, 1}, wrote : {FALSE}, report : {<<>>}]
        \cup [exit : {1}, wrote : {TRUE}, report : {ReportPerf}]

Event(op, name, res) == [op |-> op, name |-> name, res |-> res]
Status(err) == IF err = nil THEN "ok" ELSE "error"

\* cmd.Run() of the compile command
RunCompiler(cmd, fs, co) ==
    [err |-> IF co.exit = 0 THEN nil ELSE NewError(ErrExit, {}),
     fs |-> IF co.wrote THEN WriteFile(cmd.o, <<>>, fs) ELSE fs]

\* cmd.Run() of  sudo chrt -f 99 perf stat -o ...
RunPerf(cmd, fs, po) ==
    [err |-> IF po.exit = 0 THEN nil ELSE NewError(ErrExit, {}),
     fs |-> IF po.wrote THEN WriteFile(cmd.o, po.report, fs) ELSE fs]

\* compile_benchmark (lines 149-162): [err, fs, events]
compile_benchmark(config, benchmark, compiler, fs, co) ==
    LET Ran(r) ==
            [err |-> r.err, fs |-> r.fs,
             events |-> <<Event("cc", benchmark.Name, Status(r.err))>>]
        Run(c) ==
            IF c.err # nil THEN [err |-> c.err, fs |-> fs, events |-> <<>>]
            ELSE Ran(RunCompiler(c.cmd, fs, co))
    IN  Run(get_compile_command(compiler, benchmark.Name, benchmark.Path,
                                config.Bin, fs))

\* line 171
output_file_name(benchmark) == benchmark.Name \o SuffixTxt

\* evaluate_benchmark without the test of lines 182-184
evaluate_benchmark_unchecked(benchmark, config, repeats, fs, po) ==
    LET output_file_path == path(<<config.Stats, output_file_name(benchmark)>>)
        cmd == [o |-> output_file_path, e |-> "duration_time",
                repeat |-> repeats, exe |-> path(<<config.Bin, benchmark.Name>>)]
        Ran(r) ==
            [err |-> r.err, fs |-> r.fs,
             events |-> <<Event("perf", benchmark.Name, Status(r.err))>>]
        Located(e) ==
            IF e.err # nil
            THEN [err |-> Wrap("Unable to search directory", {}, e.err),
                  fs |-> fs, events |-> <<>>]
            ELSE Ran(RunPerf(cmd, fs, po))
    IN  Located(directory_contains_file(benchmark.Name, config.Bin, fs))

\* evaluate_benchmark (lines 165-198): [err, fs, events]
evaluate_benchmark(benchmark, config, repeats, fs, po) ==
    LET output_file_path == path(<<config.Stats, output_file_name(benchmark)>>)
        cmd == [o |-> output_file_path, e |-> "duration_time",
                repeat |-> repeats, exe |-> path(<<config.Bin, benchmark.Name>>)]
        Ran(r) ==
            [err |-> r.err, fs |-> r.fs,
             events |-> <<Event("perf", benchmark.Name, Status(r.err))>>]
        Located(e) ==
            IF e.err # nil
            THEN [err |-> Wrap("Unable to search directory", {}, e.err),
                  fs |-> fs, events |-> <<>>]
            ELSE IF ~e.found
            THEN [err |-> NewError(ErrExecutableNotFound, {benchmark.Name}),
                  fs |-> fs, events |-> <<>>]
            ELSE Ran(RunPerf(cmd, fs, po))
    IN  Located(directory_contains_file(benchmark.Name, config.Bin, fs))

\* get_benchmark_results (lines 201-304): [err, benchmark]
get_benchmark_results(config, benchmark, fs) ==
    LET results_file_path == path(<<config.Stats, benchmark.Name \o SuffixTxt>>)
        Scanned(st) ==
            [err |-> ScanResult(st),
             benchmark |-> [benchmark EXCEPT !.Runtime = st.Runtime,
                                             !.Uncertainty = st.Uncertainty]]
        Opened(file) ==
            IF ~file.ok
            THEN [err |-> NewError(ErrOpen, {benchmark.Name}),
                  benchmark |-> benchmark]
            ELSE Scanned(ScanAll(ScanStart(benchmark.Runtime,
                                           benchmark.Uncertainty),
                                 file.content))
    IN  Opened(Open(results_file_path, fs))

\* make_if_needed (lines 311-320); denied: the names os.Mkdir fails for
make_if_needed(name, fs, denied) ==
    LET Make(e) ==
            IF e.err # nil THEN [err |-> e.err, fs |-> fs]
            ELSE IF ~e.found THEN Mkdir(name, fs, denied)
            ELSE [err |-> nil, fs |-> fs]
    IN  Make(directory_contains_file(name, Dot, fs))

\* make_directories (lines 307-331)
RECURSIVE make_directories(_, _, _)
make_directories(directories, fs, denied) ==
    LET Rest(m) ==
            IF m.err # nil THEN m
            ELSE make_directories(Tail(directories), m.fs, denied)
    IN  IF directories = <<>> THEN [err |-> nil, fs |-> fs]
        ELSE Rest(make_if_needed(Head(directories), fs, denied))

(***************************************************************************)
(* External package functions.                                             *)
(***************************************************************************)
\* Init_Env (lines 342-344)
Init_Env(config, fs, denied) ==
    make_directories(<<config.Stats, config.Bin>>, fs, denied)

\* line 368
NewBenchmark(config, n) ==
    [Name |-> n, Path |-> path(<<config.Src, n>>), Runtime |-> Zero,
     Uncertainty |-> Zero]

\* Init_Benchmarks without the test of lines 362-364 that ignores files
Init_Benchmarks_with_files(config, fs) ==
    LET Make(file) == NewBenchmark(config, file.name)
        Create(d) ==
            IF ~d.ok
            THEN [benchmarks |-> <<>>, err |-> NewError(ErrReadDir, {})]
            ELSE [benchmarks |-> MapSeq(d.files, Make), err |-> nil]
    IN  Create(ReadDir(config.Src, fs))

\* Init_Benchmarks (lines 347-373): [benchmarks, err]
Init_Benchmarks(config, fs) ==
    LET IsDirectory(file) == file.isDir
        Make(file) == NewBenchmark(config, file.name)
        Create(d) ==
            IF ~d.ok
            THEN [benchmarks |-> <<>>, err |-> NewError(ErrReadDir, {})]
            ELSE [benchmarks |-> MapSeq(SelectSeq(d.files, IsDirectory), Make),
                  err |-> nil]
    IN  Create(ReadDir(config.Src, fs))

\* line 385 without the ".txt"
results_file_name_bare(b) == b.Name

\* line 385
results_file_name(b) == b.Name \o SuffixTxt

\* the loop of Get_Unevaluated_Benchmarks taking a benchmark whose report
\* cannot be parsed as unevaluated instead of returning the error
RECURSIVE UnevaluatedFrom_remeasuring(_, _, _, _, _, _)
UnevaluatedFrom_remeasuring(k, config, benchmarks, fs, unevaluated, events) ==
    LET Stop(e, bs, evs) ==
            [unevaluated |-> unevaluated, err |-> e, benchmarks |-> bs,
             events |-> evs]
        \* lines 400-403
        Cached(g) ==
            IF g.err # nil
            THEN UnevaluatedFrom_remeasuring(k + 1, config,
                     [benchmarks EXCEPT ![k] = g.benchmark], fs,
                     Append(unevaluated, k),
                     Append(events, Event("parse", g.benchmark.Name, "error")))
            ELSE UnevaluatedFrom_remeasuring(k + 1, config,
                     [benchmarks EXCEPT ![k] = g.benchmark], fs, unevaluated,
                     Append(events, Event("parse", g.benchmark.Name, "ok")))
        \* lines 389-397
        Located(e) ==
            IF e.err # nil
            THEN Stop(Wrap("Problem opening results directory", {}, e.err),
                      benchmarks, events)
            ELSE IF ~e.found
            THEN UnevaluatedFrom_remeasuring(k + 1, config, benchmarks, fs,
                                 Append(unevaluated, k), events)
            ELSE Cached(get_benchmark_results(config, benchmarks[k], fs))
    IN  IF k > Len(benchmarks) THEN Stop(nil, benchmarks, events)
        ELSE Located(directory_contains_file(results_file_name(benchmarks[k]),
                                             config.Stats, fs))

\* the loop of Get_Unevaluated_Benchmarks putting each unevaluated benchmark
\* at the front of the set instead of appending it (line 396)
RECURSIVE UnevaluatedFrom_prepending(_, _, _, _, _, _)
UnevaluatedFrom_prepending(k, config, benchmarks, fs, unevaluated, events) ==
    LET Stop(e, bs, evs) ==
            [unevaluated |-> unevaluated, err |-> e, benchmarks |-> bs,
             events |-> evs]
        \* lines 400-403
        Cached(g) ==
            IF g.err # nil
            THEN Stop(Wrap("Unable to read results", {}, g.err),
                      [benchmarks EXCEPT ![k] = g.benchmark],
                      Append(events, Event("parse", g.benchmark.Name, "error")))
            ELSE UnevaluatedFrom_prepending(k + 1, config,
                     [benchmarks EXCEPT ![k] = g.benchmark], fs, unevaluated,
                     Append(events, Event("parse", g.benchmark.Name, "ok")))
        \* lines 389-397
        Located(e) ==
            IF e.err # nil
            THEN Stop(Wrap("Problem opening results directory", {}, e.err),
                      benchmarks, events)
            ELSE IF ~e.found
            THEN UnevaluatedFrom_prepending(k + 1, config, benchmarks, fs,
                                            <<k>> \o unevaluated, events)
            ELSE Cached(get_benchmark_results(config, benchmarks[k], fs))
    IN  IF k > Len(benchmarks) THEN Stop(nil, benchmarks, events)
        ELSE Located(directory_contains_file(results_file_name(benchmarks[k]),
                                             config.Stats, fs))

\* the loop of Get_Unevaluated_Benchmarks appending to the unevaluated set
\* also the benchmarks whose report it has read
RECURSIVE UnevaluatedFrom_keeping_cached(_, _, _, _, _, _)
UnevaluatedFrom_keeping_cached(k, config, benchmarks, fs, unevaluated, events) ==
    LET Stop(e, bs, evs) ==
            [unevaluated |-> unevaluated, err |-> e, benchmarks |-> bs,
             events |-> evs]
        \* lines 400-403
        Cached(g) ==
            IF g.err # nil
            THEN Stop(Wrap("Unable to read results", {}, g.err),
                      [benchmarks EXCEPT ![k] = g.benchmark],
                      Append(events, Event("parse", g.benchmark.Name, "error")))
            ELSE UnevaluatedFrom_keeping_cached(k + 1, config,
                     [benchmarks EXCEPT ![k] = g.benchmark], fs,
                     Append(unevaluated, k),
                     Append(events, Event("parse", g.benchmark.Name, "ok")))
        \* lines 389-397
        Located(e) ==
            IF e.err # nil
            THEN Stop(Wrap("Problem opening results directory", {}, e.err),
                      benchmarks, events)
            ELSE IF ~e.found
            THEN UnevaluatedFrom_keeping_cached(k + 1, config, benchmarks, fs,
                                 Append(unevaluated, k), events)
            ELSE Cached(get_benchmark_results(config, benchmarks[k], fs))
    IN  IF k > Len(benchmarks) THEN Stop(nil, benchmarks, events)
        ELSE Located(directory_contains_file(results_file_name(benchmarks[k]),
                                             config.Stats, fs))

\* Get_Unevaluated_Benchmarks (lines 376-407), the loop from benchmark k on.
\* benchmarks holds the Benchmark objects, unevaluated the pointers to them
\* (their indices): [unevaluated, err, benchmarks, events]
RECURSIVE UnevaluatedFrom(_, _, _, _, _, _)
UnevaluatedFrom(k, config, benchmarks, fs, unevaluated, events) ==
    LET Stop(e, bs, evs) ==
            [unevaluated |-> unevaluated, err |-> e, benchmarks |-> bs,
             events |-> evs]
        \* lines 400-403
        Cached(g) ==
            IF g.err # nil
            THEN Stop(Wrap("Unable to read results", {}, g.err),
                      [benchmarks EXCEPT ![k] = g.benchmark],
                      Append(events, Event("parse", g.benchmark.Name, "error")))
            ELSE UnevaluatedFrom(k + 1, config,
                     [benchmarks EXCEPT ![k] = g.benchmark], fs, unevaluated,
                     Append(events, Event("parse", g.benchmark.Name, "ok")))
        \* lines 389-397
        Located(e) ==
            IF e.err # nil
            THEN Stop(Wrap("Problem opening results directory", {}, e.err),
                      benchmarks, events)
            ELSE IF ~e.found
            THEN UnevaluatedFrom(k + 1, config, benchmarks, fs,
                                 Append(unevaluated, k), events)
            ELSE Cached(get_benchmark_results(config, benchmarks[k], fs))
    IN  IF k > Len(benchmarks) THEN Stop(nil, benchmarks, events)
        ELSE Located(directory_contains_file(results_file_name(benchmarks[k]),
                                             config.Stats, fs))

Get_Unevaluated_Benchmarks(config, benchmarks, fs) ==
    UnevaluatedFrom(1, config, benchmarks, fs, <<>>, <<>>)

\* Evaluate_Benchmark without the test of line 438: the report is read
\* whatever evaluate_benchmark returned
Evaluate_Benchmark_reading_anyway(compiler, config, repeats, benchmark, fs, co, po) ==
    LET Read(g, fs2, evs) ==
            [err |-> IF g.err # nil
                     THEN Wrap("Unable to read results for", {benchmark.Name},
                               g.err)
                     ELSE nil,
             benchmark |-> g.benchmark, fs |-> fs2,
             events |-> Append(evs, Event("parse", benchmark.Name,
                                          Status(g.err)))]
        Evaluated(m, evs) ==
            Read(get_benchmark_results(config, benchmark, m.fs), m.fs,
                 evs \o m.events)
        Compiled(c) ==
            IF c.err # nil
            THEN [err |-> Wrap("Problem compiling benchmark", {}, c.err),
                  benchmark |-> benchmark, fs |-> c.fs, events |-> c.events]
            ELSE Evaluated(evaluate_benchmark(benchmark, config, repeats, c.fs,
                                              po),
                           c.events)
        Checked(w) ==
            IF w.err # nil
            THEN [err |-> Wrap("Unable to search", {}, w.err),
                  benchmark |-> benchmark, fs |-> fs, events |-> <<>>]
            ELSE IF ~w.found
            THEN Compiled(compile_benchmark(config, benchmark, compiler, fs, co))
            ELSE Compiled([err |-> nil, fs |-> fs, events |-> <<>>])
    IN  Checked(directory_contains_file(benchmark.Name, config.Bin, fs))

\* Evaluate_Benchmark (lines 410-451): [err, benchmark, fs, events]
Evaluate_Benchmark(compiler, config, repeats, benchmark, fs, co, po) ==
    LET \* lines 445-450
        Read(g, fs2, evs) ==
            [err |-> IF g.err # nil
                     THEN Wrap("Unable to read results for", {benchmark.Name},
                               g.err)
                     ELSE nil,
             benchmark |-> g.benchmark, fs |-> fs2,
             events |-> Append(evs, Event("parse", benchmark.Name,
                                          Status(g.err)))]
        \* lines 438-445
        Evaluated(m, evs) ==
            IF m.err # nil
            THEN [err |-> Wrap("Problem evaluating benchmark", {}, m.err),
                  benchmark |-> benchmark, fs |-> m.fs,
                  events |-> evs \o m.events]
            ELSE Read(get_benchmark_results(config, benchmark, m.fs), m.fs,
                      evs \o m.events)
        \* lines 429-437
        Compiled(c) ==
            IF c.err # nil
            THEN [err |-> Wrap("Problem compiling benchmark", {}, c.err),
                  benchmark |-> benchmark, fs |-> c.fs, events |-> c.events]
            ELSE Evaluated(evaluate_benchmark(benchmark, config, repeats, c.fs,
                                              po),
                           c.events)
        \* lines 418-426
        Checked(w) ==
            IF w.err # nil
            THEN [err |-> Wrap("Unable to search", {}, w.err),
                  benchmark |-> benchmark, fs |-> fs, events |-> <<>>]
            ELSE IF ~w.found
            THEN Compiled(compile_benchmark(config, benchmark, compiler, fs, co))
            ELSE Compiled([err |-> nil, fs |-> fs, events |-> <<>>])
    IN  Checked(directory_contains_file(benchmark.Name, config.Bin, fs))

(***************************************************************************)
(* State.                                                                  *)
(*   fs           the file system, kept from one run of main to the next   *)
(*   run          the number of the current run of main                    *)
(*   pc           where main stands: "Init_Env", "Init_Benchmarks",        *)
(*                "Get_Unevaluated_Benchmarks", "Evaluate" (the loop of    *)
(*                line 479), "exit" (main returned), "fatal" (log.Fatal)   *)
(*   benchmarks, unevaluated, err    main's variables; unevaluated holds   *)
(*                pointers into benchmarks                                 *)
(*   next         the position of the loop of line 479 in unevaluated      *)
(*   events       this run's external process spawns and parser calls      *)
(*   printed      the lines main has printed in this run                   *)
(*   prev         how the previous run ended: its pc, benchmarks and err,  *)
(*                the number of processes it spawned, of calls of          *)
(*                Evaluate_Benchmark it made (calls) and of benchmarks it  *)
(*                had to evaluate (pending)                                *)
(*   file, scan, ppc, perr   one call of get_benchmark_results, line by    *)
(*                line: the report, the loop state, the position, the      *)
(*                returned error                                           *)
(***************************************************************************)
VARIABLES fs, run, pc, benchmarks, unevaluated, next, err, events, printed,
          prev, file, scan, ppc, perr, fin, fout, fpc

mainVars == <<fs, run, pc, benchmarks, unevaluated, next, err, events, printed,
              prev>>
parseVars == <<file, scan, ppc, perr>>
floatVars == <<fin, fout, fpc>>
vars == <<fs, run, pc, benchmarks, unevaluated, next, err, events, printed,
          prev, file, scan, ppc, perr, fin, fout, fpc>>

Spawns(evs) == SelectSeq(evs, LAMBDA e : e.op \in {"cc", "perf"})

NoRun ==
    [status |-> "none", benchmarks |-> <<>>, spawns |-> 0, err |-> nil,
     calls |-> 0, pending |-> 0]

\* the directories main may be started over: Stats and Bin are absent, plain
\* files, or directories left by earlier runs (some reports as perf stat
\* writes them, some executables); the source root is absent, a plain file,
\* or a directory of MaxBench entries
NoRoot == [i \in Entries |-> [isDir |-> FALSE, files |-> <<>>]]

InitialFs ==
    {f \in [cwd : [stats : Kinds, bin : Kinds],
            src : Kinds,
            root : [Entries -> RootEntry],
            stats : UNION {[S -> {ReportPerf}] :
                              S \in SUBSET {EntryName(i) \o SuffixTxt :
                                                i \in Entries}},
            bin : SUBSET {EntryName(i) : i \in Entries}] :
        /\ f.src # "dir" => f.root = NoRoot
        /\ f.cwd.stats # "dir" => DOMAIN f.stats = {}
        /\ f.cwd.bin # "dir" => f.bin = {}}

ParserIdle ==
    /\ file = <<>>
    /\ scan = ScanStart(Zero, Zero)
    /\ ppc = "idle"
    /\ perr = nil

FloatIdle ==
    /\ fin = <<>>
    /\ fout = Zero
    /\ fpc = "idle"

MainIdle ==
    /\ fs = [cwd |-> [stats |-> "dir", bin |-> "dir"], src |-> "absent",
             root |-> NoRoot, stats |-> <<>>, bin |-> {}]
    /\ run = 1
    /\ pc = "idle"
    /\ benchmarks = <<>>
    /\ unevaluated = <<>>
    /\ next = 1
    /\ err = nil
    /\ events = <<>>
    /\ printed = <<>>
    /\ prev = NoRun

Init ==
    /\ fs \in InitialFs
    /\ run = 1
    /\ pc = "Init_Env"
    /\ benchmarks = <<>>
    /\ unevaluated = <<>>
    /\ next = 1
    /\ err = nil
    /\ events = <<>>
    /\ printed = <<>>
    /\ prev = NoRun
    /\ ParserIdle
    /\ FloatIdle

(***************************************************************************)
(* main (lines 453-491), one action per stage.                             *)
(***************************************************************************)
\* the error logged without leaving the process (log.Print for log.Fatal)
Fatal_logged(e) ==
    /\ pc' = pc
    /\ err' = e

\* log.Fatal(err.Error()): the process exits
Fatal(e) ==
    /\ pc' = "fatal"
    /\ err' = e

\* lines 462-464
MainInitEnv ==
    /\ pc = "Init_Env"
    /\ \E denied \in SUBSET {cfg.Stats, cfg.Bin} :
          \E r \in {Init_Env(cfg, fs, denied)} :
              /\ fs' = r.fs
              /\ IF r.err # nil THEN Fatal(r.err)
                 ELSE pc' = "Init_Benchmarks" /\ err' = err
    /\ UNCHANGED <<run, benchmarks, unevaluated, next, events, printed, prev>>
    /\ UNCHANGED parseVars
    /\ UNCHANGED floatVars

\* lines 467-470
MainInitBenchmarks ==
    /\ pc = "Init_Benchmarks"
    /\ \E r \in {Init_Benchmarks(cfg, fs)} :
           /\ benchmarks' = r.benchmarks
           /\ IF r.err # nil THEN Fatal(r.err)
              ELSE pc' = "Get_Unevaluated_Benchmarks" /\ err' = err
    /\ UNCHANGED <<fs, run, unevaluated, next, events, printed, prev>>
    /\ UNCHANGED parseVars
    /\ UNCHANGED floatVars

\* lines 473-476
MainGetUnevaluated ==
    /\ pc = "Get_Unevaluated_Benchmarks"
    /\ \E r \in {Get_Unevaluated_Benchmarks(cfg, benchmarks, fs)} :
           /\ benchmarks' = r.benchmarks
           /\ unevaluated' = r.unevaluated
           /\ events' = events \o r.events
           /\ IF r.err # nil THEN Fatal(r.err)
              ELSE pc' = "Evaluate" /\ err' = err
    /\ UNCHANGED <<fs, run, next, printed, prev>>
    /\ UNCHANGED parseVars
    /\ UNCHANGED floatVars

\* lines 479-484, one iteration
MainEvaluate ==
    /\ pc = "Evaluate"
    /\ next <= Len(unevaluated)
    /\ \E co \in CompilerOutcomes, po \in PerfOutcomes :
          \E r \in {Evaluate_Benchmark(<<"c", "c">>, cfg, 10,
                                        benchmarks[unevaluated[next]], fs,
                                        co, po)} :
              /\ fs' = r.fs
              /\ benchmarks' =
                     [benchmarks EXCEPT ![unevaluated[next]] = r.benchmark]
              /\ events' = events \o r.events
              /\ IF r.err # nil THEN Fatal(r.err) /\ next' = next
                 ELSE pc' = pc /\ err' = err /\ next' = next + 1
    /\ UNCHANGED <<run, unevaluated, printed, prev>>
    /\ UNCHANGED parseVars
    /\ UNCHANGED floatVars

\* line 488
PrintLine(b) == [Name |-> b.Name, Runtime |-> b.Runtime,
                 Uncertainty |-> b.Uncertainty]

\* lines 487-491: the printing loop, and main returns
MainPrint ==
    /\ pc = "Evaluate"
    /\ next > Len(unevaluated)
    /\ printed' = MapSeq(benchmarks, PrintLine)
    /\ pc' = "exit"
    /\ UNCHANGED <<fs, run, benchmarks, unevaluated, next, err, events, prev>>
    /\ UNCHANGED parseVars
    /\ UNCHANGED floatVars

\* the program is started again over the same directories
NextRun ==
    /\ pc \in {"exit", "fatal"}
    /\ run < MaxRuns
    /\ run' = run + 1
    /\ prev' = [status |-> pc, benchmarks |-> benchmarks,
                spawns |-> Len(Spawns(events)), err |-> err,
                calls |-> IF pc = "exit" THEN Len(unevaluated) ELSE next,
                pending |-> Len(unevaluated)]
    /\ pc' = "Init_Env"
    /\ benchmarks' = <<>>
    /\ unevaluated' = <<>>
    /\ next' = 1
    /\ err' = nil
    /\ events' = <<>>
    /\ printed' = <<>>
    /\ UNCHANGED fs
    /\ UNCHANGED parseVars
    /\ UNCHANGED floatVars

Next ==
    \/ MainInitEnv
    \/ MainInitBenchmarks
    \/ MainGetUnevaluated
    \/ MainEvaluate
    \/ MainPrint
    \/ NextRun

Spec == Init /\ [][Next]_vars

(***************************************************************************)
(* get_benchmark_results on every report of at most MaxLines lines, one    *)
(* action per loop iteration.                                              *)
(***************************************************************************)
ParseInit ==
    /\ file \in Reports
    /\ scan = ScanStart(Zero, Zero)
    /\ ppc = "scan"
    /\ perr = nil
    /\ MainIdle
    /\ FloatIdle

\* lines 261-296: one iteration of the loop
ParseLine ==
    /\ ppc = "scan"
    /\ Scanning(scan)
    /\ scan' = ScanLine(scan, file)
    /\ UNCHANGED <<file, ppc, perr>>
    /\ UNCHANGED mainVars
    /\ UNCHANGED floatVars

\* lines 298-303
ParseReturn ==
    /\ ppc = "scan"
    /\ ~Scanning(scan)
    /\ ppc' = "done"
    /\ perr' = ScanResult(scan)
    /\ UNCHANGED <<file, scan>>
    /\ UNCHANGED mainVars
    /\ UNCHANGED floatVars

ParseNext ==
    \/ ParseLine
    \/ ParseReturn

SpecParse == ParseInit /\ [][ParseNext]_vars

(***************************************************************************)
(* get_float on its own (lines 209-234): every string of at most MaxChars  *)
(* runes over FloatAlphabet, and the strings FloatSamples.                 *)
(***************************************************************************)
FloatAlphabet == {"0", "1", "5", ".", ",", "%", "n", ArabicThree}

SampleHalf == <<"0", ".", "5", "%">>
SampleThousands == <<"1", "2", ",", "0", "0", "0", " ", "n", "s">>
SampleNoDigits == <<" ", "n", "s", "%">>
SampleTwoPoints == <<"1", ".", "2", ".", "3", "4">>
FloatSamples == {SampleHalf, SampleThousands, SampleNoDigits, SampleTwoPoints}

FloatInputs == SeqsUpTo(FloatAlphabet, MaxChars) \cup FloatSamples

FloatInit ==
    /\ fin \in FloatInputs
    /\ fout = Zero
    /\ fpc = "call"
    /\ MainIdle
    /\ ParserIdle

\* the call get_float(match) and its return, lines 209-233
FloatCall ==
    /\ fpc = "call"
    /\ fout' = get_float(fin)
    /\ fpc' = "done"
    /\ UNCHANGED fin
    /\ UNCHANGED mainVars
    /\ UNCHANGED parseVars

FloatNext == FloatCall

SpecFloat == FloatInit /\ [][FloatNext]_vars

(***************************************************************************)
(* Properties.                                                             *)
(***************************************************************************)
ReportName(i) == EntryName(i) \o SuffixTxt

\* the benchmark the loop of line 479 is about to evaluate
Evaluating == pc = "Evaluate" /\ next <= Len(unevaluated)
Current == benchmarks[unevaluated[next]]

\* an external process or parser call of the step being taken
StepHas(op, name) ==
    \E k \in (Len(events) + 1)..Len(events') :
        events'[k].op = op /\ events'[k].name = name

\* the source directory of the benchmark holds a plain file named *.c
HasPlainCFile(name) ==
    \E i \in Entries :
        /\ EntryName(i) = name
        /\ fs.src = "dir"
        /\ fs.root[i].isDir
        /\ \E k \in 1..Len(fs.root[i].files) :
              /\ ~fs.root[i].files[k].isDir
              /\ HasSuffix(fs.root[i].files[k].name, SuffixC)

\* the previous run went through Init_Env, Init_Benchmarks,
\* Get_Unevaluated_Benchmarks and a call of Evaluate_Benchmark for each
\* unevaluated benchmark
EvaluateErrors ==
    {"Unable to search", "Problem compiling benchmark",
     "Problem evaluating benchmark", "Unable to read results for"}
PreviousRunEvaluatedAll ==
    \/ prev.status = "exit"
    \/ /\ prev.status = "fatal"
       /\ prev.err.prefix \in EvaluateErrors
       /\ prev.calls = prev.pending

C3_CompileIffNoEntry ==
    [][(Evaluating /\ fs.cwd.bin = "dir") =>
          (StepHas("cc", Current.Name) <=> Current.Name \notin fs.bin)]_vars

\* C3 as amended: a call of Evaluate_Benchmark spawns the compiler if and
\* only if the binaries directory can be listed, has no entry of the
\* benchmark's name, and the benchmark's source directory holds a plain file
\* named *.c; when the entry exists the call spawns no compiler and goes on
\* to the measurement.
C3_CompileSkipRule ==
    [][Evaluating =>
          /\ StepHas("cc", Current.Name) <=>
                /\ fs.cwd.bin = "dir"
                /\ Current.Name \notin fs.bin
                /\ HasPlainCFile(Current.Name)
          /\ (fs.cwd.bin = "dir" /\ Current.Name \in fs.bin) =>
                /\ ~StepHas("cc", Current.Name)
                /\ StepHas("perf", Current.Name)]_vars

C3_Witness ==
    /\ Len(events) = 1
    /\ events[1].op = "perf"
    /\ run = 1

\* C4 as claimed: a report with a line "1,234,567 ns" and a line "3.45%",
\* in either order and among lines that match neither expression, is parsed
\* without error into Runtime = 1234567.0 and Uncertainty = 3.45.
C4_TwoLineReport ==
    (/\ ppc = "done"
     /\ \E i \in 1..Len(file) : file[i] = LineDuration
     /\ \E i \in 1..Len(file) : file[i] = LineUncertainty
     /\ \A i \in 1..Len(file) :
           file[i] \in {LineDuration, LineUncertainty, LineOther})
        => /\ perr = nil
           /\ FloatEq(scan.Runtime, Float(1234567, 1))
           /\ FloatEq(scan.Uncertainty, Float(345, 100))

\* C5 as claimed: a report in which no line matches the duration expression,
\* or no line matches the uncertainty expression, is rejected with
\* "Unable to locate runtime and/or uncertainty!".
C5_MissingPattern ==
    (/\ ppc = "done"
     /\ \/ \A i \in 1..Len(file) : ~match_exp(file[i], match_duration_exp).ok
        \/ \A i \in 1..Len(file) : ~match_exp(file[i], match_uncertainty_exp).ok)
        => perr.cause = ErrIncompleteReport

\* C6: the list Init_Benchmarks returns holds one Benchmark for every
\* sub-directory of the source root and nothing else, each once, in the
\* order of the listing, with Name the entry's name, Path = Src/Name and
\* both measurements zero.
C6_Discovery ==
    pc = "Get_Unevaluated_Benchmarks" =>
        /\ Len(benchmarks) = Cardinality({i \in Entries : fs.root[i].isDir})
        /\ \A i \in Entries :
              Cardinality({k \in 1..Len(benchmarks) :
                              benchmarks[k].Name = EntryName(i)})
                  = IF fs.root[i].isDir THEN 1 ELSE 0
        /\ \A k \in 1..Len(benchmarks) :
              /\ \E i \in Entries : benchmarks[k].Name = EntryName(i)
              /\ benchmarks[k].Path = cfg.Src \o <<"/">> \o benchmarks[k].Name
              /\ benchmarks[k].Runtime = Zero
              /\ benchmarks[k].Uncertainty = Zero
        /\ \A i, j \in Entries :
              (i < j /\ fs.root[i].isDir /\ fs.root[j].isDir) =>
                  \E k, l \in 1..Len(benchmarks) :
                      /\ k < l
                      /\ benchmarks[k].Name = EntryName(i)
                      /\ benchmarks[l].Name = EntryName(j)

C6_Witness ==
    /\ pc = "Get_Unevaluated_Benchmarks"
    /\ ~fs.root[1].isDir
    /\ fs.root[2].isDir
    /\ fs.root[2].files = SourcesWithoutC
    /\ Len(benchmarks) = 1

\* C7: when Evaluate_Benchmark has to compile a benchmark whose source
\* directory holds no plain file named *.c, it returns the compile error
\* caused by "No source files found to compile": the compiler is not
\* spawned, nothing is measured or parsed, and no file is written.
C7_NoSourceFiles ==
    [][(/\ Evaluating
        /\ fs.cwd.bin = "dir"
        /\ Current.Name \notin fs.bin
        /\ ~HasPlainCFile(Current.Name))
          => /\ pc' = "fatal"
             /\ err'.prefix = "Problem compiling benchmark"
             /\ err'.cause = ErrNoSourceFiles
             /\ events' = events
             /\ fs' = fs
             /\ benchmarks' = benchmarks]_vars

C7_Witness ==
    /\ pc = "fatal"
    /\ err.prefix = "Problem compiling benchmark"
    /\ err.cause = ErrNoSourceFiles
    /\ \E k \in 1..Len(benchmarks) :
          /\ unevaluated[next] = k
          /\ \E i \in Entries :
                /\ EntryName(i) = benchmarks[k].Name
                /\ fs.root[i].files = SourcesWithoutC

\* C8: when the compile of Evaluate_Benchmark has passed (done or skipped)
\* and the binaries directory has no entry of the benchmark's name,
\* evaluate_benchmark fails with "Executable not found", naming the
\* benchmark, and the measurement tool is not spawned; nothing is parsed.
C8_ExecutableNotFound ==
    [][(/\ Evaluating
        /\ fs'.cwd.bin = "dir"
        /\ Current.Name \notin fs'.bin
        /\ ~(pc' = "fatal" /\ err'.prefix = "Problem compiling benchmark"))
          => /\ pc' = "fatal"
             /\ err'.prefix = "Problem evaluating benchmark"
             /\ err'.cause = ErrExecutableNotFound
             /\ Current.Name \in err'.mentions
             /\ ~StepHas("perf", Current.Name)
             /\ ~StepHas("parse", Current.Name)
             /\ fs'.stats = fs.stats]_vars

C8_Witness ==
    /\ pc = "fatal"
    /\ err.cause = ErrExecutableNotFound
    /\ Len(events) >= 1
    /\ events[Len(events)] =
          Event("cc", benchmarks[unevaluated[next]].Name, "ok")

\* C9: once a stage of main has returned an error, the run is over: the
\* process has exited, nothing has been printed, and the only step left is
\* the start of another run.
C9_FailFast ==
    [][err # nil =>
          /\ pc = "fatal"
          /\ printed = <<>>
          /\ run' = run + 1]_vars

C9_Witness ==
    /\ pc = "fatal"
    /\ printed = <<>>
    /\ Len(events) >= 3
    /\ events[2] = Event("parse", benchmarks[1].Name, "ok")
    /\ events[1].op = "perf"
    /\ FloatEq(benchmarks[1].Uncertainty, Float(345, 100))

\* C10 as claimed: after Init_Env has returned without error, the source
\* root, the results directory and the binaries directory are directories.
C10_DirectoriesExist ==
    pc = "Init_Benchmarks" =>
        /\ fs.src = "dir"
        /\ fs.cwd.stats = "dir"
        /\ fs.cwd.bin = "dir"

\* the decimal digit a digit rune stands for
C11_DigitOf(d) == IF d = ArabicThree THEN 3 ELSE CodePoint(d) - 48

\* the integer the digit runes of s form, read in order
RECURSIVE C11_IntegerOf(_, _)
C11_IntegerOf(s, i) ==
    IF i = 0 THEN 0
    ELSE IF IsDigit(s[i])
    THEN LET Rest(v) == v * 10 + C11_DigitOf(s[i])
         IN  Rest(C11_IntegerOf(s, i - 1))
    ELSE C11_IntegerOf(s, i - 1)

\* the number of digit runes of s after its first "."
C11_DigitsAfterPoint(s) ==
    Cardinality({i \in 1..Len(s) :
                    /\ IsDigit(s[i])
                    /\ \E p \in 1..(i - 1) : s[p] = "."})

\* C11 as claimed: for every input string get_float returns the integer
\* formed by the string's digit characters in order, divided by 10 to the
\* number of digit characters after the first "."; every other character is
\* ignored.
C11_GetFloat ==
    fpc = "done" =>
        FloatEq(fout, Float(C11_IntegerOf(fin, Len(fin)),
                            Pow10(C11_DigitsAfterPoint(fin))))

\* C11 on the strings that hold no digit rune outside "0".."9": there the
\* code computes what the claim states.
C11_GetFloatAscii ==
    (fpc = "done" /\ \A i \in 1..Len(fin) : fin[i] # ArabicThree) =>
        FloatEq(fout, Float(C11_IntegerOf(fin, Len(fin)),
                            Pow10(C11_DigitsAfterPoint(fin))))

\* the names of the benchmarks Get_Unevaluated_Benchmarks returned
UnevaluatedNames == {benchmarks[unevaluated[j]].Name : j \in 1..Len(unevaluated)}

\* the phases of Evaluate_Benchmark that have run for the benchmark named n
\* in this run, in the order they ran
PhasesOf(n) ==
    SelectSeq(events, LAMBDA e : e.name = n)

IsPrefix(a, b) == Len(a) <= Len(b) /\ a = SubSeq(b, 1, Len(a))

\* C12: for every benchmark Evaluate_Benchmark was called for, the phases
\* that ran in this run are a prefix of compile, measure, parse (or of
\* measure, parse when the compile was skipped), each at most once; every
\* phase but the last succeeded, so nothing follows a failed phase; and when
\* Evaluate_Benchmark failed in its compile or its measurement before any
\* process was spawned, no later phase ran either.
C12_PhaseOrder ==
    \A n \in UnevaluatedNames :
        LET ph == PhasesOf(n)
            ops == [k \in 1..Len(ph) |-> ph[k].op]
        IN  /\ (IsPrefix(ops, <<"cc", "perf", "parse">>)
                   \/ IsPrefix(ops, <<"perf", "parse">>))
            /\ \A k \in 1..(Len(ph) - 1) : ph[k].res = "ok"
            /\ (pc = "fatal" /\ next <= Len(unevaluated)
                    /\ benchmarks[unevaluated[next]].Name = n) =>
                   /\ err.prefix = "Problem compiling benchmark" =>
                          /\ \A k \in 1..Len(ph) : ph[k].op = "cc"
                          /\ err.cause = ErrExit => ph # <<>>
                   /\ err.prefix = "Problem evaluating benchmark" =>
                          /\ \A k \in 1..Len(ph) : ph[k].op # "parse"
                   /\ ph # <<>> /\ ph[Len(ph)].res = "error" =>
                          err.prefix \in EvaluateErrors

\* a second benchmark whose compile succeeded and whose measurement failed,
\* after a first benchmark that went through the three phases
C12_Witness ==
    /\ pc = "fatal"
    /\ err.prefix = "Problem evaluating benchmark"
    /\ Len(events) = 5
    /\ events[1] = Event("cc", benchmarks[1].Name, "ok")
    /\ events[2] = Event("perf", benchmarks[1].Name, "ok")
    /\ events[3] = Event("parse", benchmarks[1].Name, "ok")
    /\ events[4] = Event("cc", benchmarks[2].Name, "ok")
    /\ events[5] = Event("perf", benchmarks[2].Name, "error")

\* the number of calls of get_benchmark_results made for the benchmark
\* named n in the run whose record is evs
ParseCalls(evs, n) ==
    Len(SelectSeq(evs, LAMBDA e : e.op = "parse" /\ e.name = n))

\* C13 as claimed: in a run of main that has ended, the measurement fields
\* of every Benchmark have been mutated exactly once (one call of the
\* parser for it, from Get_Unevaluated_Benchmarks or from
\* Evaluate_Benchmark).  Stated for the runs over a results and a binaries
\* directory that are directories.
C13_ExactlyOnce ==
    (pc \in {"exit", "fatal"} /\ fs.cwd.stats = "dir" /\ fs.cwd.bin = "dir") =>
        \A k \in 1..Len(benchmarks) :
            ParseCalls(events, benchmarks[k].Name) = 1

\* C13: within one run of main, every Benchmark holds Runtime = 0 and
\* Uncertainty = 0 until the parser is called for it; the parser is called
\* for it at most once, from Get_Unevaluated_Benchmarks (a report existed) or
\* from Evaluate_Benchmark (none existed), never from both; after that call
\* its fields do not change; and when main returns, the parser has been
\* called exactly once for every Benchmark.
C13_Lifecycle ==
    [][run' = run =>
          \A k \in 1..Len(benchmarks') :
              LET n == benchmarks'[k].Name
              IN  /\ ParseCalls(events', n) <= 1
                  /\ ParseCalls(events', n) = 0 =>
                         /\ benchmarks'[k].Runtime = Zero
                         /\ benchmarks'[k].Uncertainty = Zero
                  /\ ParseCalls(events', n) = 1 =>
                         (n \in {benchmarks'[unevaluated'[j]].Name :
                                    j \in 1..Len(unevaluated')}
                             <=> \E j \in 2..Len(events') :
                                    /\ events'[j] = Event("parse", n, events'[j].res)
                                    /\ events'[j - 1].op = "perf"
                                    /\ events'[j - 1].name = n)
                  /\ (k <= Len(benchmarks) /\ ParseCalls(events, n) = 1) =>
                         benchmarks'[k] = benchmarks[k]
                  /\ pc' = "exit" => ParseCalls(events', n) = 1]_vars

\* main returned after reading the first benchmark's report from the cache
\* and compiling, measuring and parsing the second
C13_Witness ==
    /\ pc = "exit"
    /\ Len(benchmarks) = 2
    /\ unevaluated = <<2>>
    /\ events = <<Event("parse", benchmarks[1].Name, "ok"),
                  Event("cc", benchmarks[2].Name, "ok"),
                  Event("perf", benchmarks[2].Name, "ok"),
                  Event("parse", benchmarks[2].Name, "ok")>>
    /\ benchmarks[2].Runtime # Zero

\* the lines of the report being parsed that match an expression
DurationLines ==
    {i \in 1..Len(file) : match_exp(file[i], match_duration_exp).ok}
UncertaintyLines ==
    {i \in 1..Len(file) : match_exp(file[i], match_uncertainty_exp).ok}

\* the value get_float gives for the match of an expression in line i
ValueIn(i, exp) == get_float(match_exp(file[i], exp).match)

\* C14 as claimed: when the report has a line matching the duration pattern
\* and a line matching the uncertainty pattern, the call succeeds, Runtime
\* is the value of the first duration line, Uncertainty the value of the
\* first uncertainty line, and no line is read after the one that gave the
\* second value.  Stated for the reports in which every line that matches
\* the uncertainty pattern matches the duration pattern too.
C14_FirstMatchWins ==
    (/\ ppc = "done"
     /\ DurationLines # {}
     /\ UncertaintyLines # {}
     /\ UncertaintyLines \subseteq DurationLines) =>
        /\ perr = nil
        /\ FloatEq(scan.Runtime,
                   ValueIn(SetMin(DurationLines), match_duration_exp))
        /\ FloatEq(scan.Uncertainty,
                   ValueIn(SetMin(UncertaintyLines), match_uncertainty_exp))
        /\ scan.reads = SetMax({SetMin(DurationLines),
                                SetMin(UncertaintyLines)})

\* C15 as claimed: when the first line of the report matches both patterns
\* and a later line matches the uncertainty pattern, the Uncertainty is the
\* value of the first such later line, not the value in the first line.
C15_DurationOnly ==
    (/\ ppc = "done"
     /\ 1 \in DurationLines \cap UncertaintyLines
     /\ UncertaintyLines \ {1} # {}) =>
        FloatEq(scan.Uncertainty,
                ValueIn(SetMin(UncertaintyLines \ {1}), match_uncertainty_exp))

\* C15: when the first line of the report that matches the duration pattern
\* matches the uncertainty pattern too, both values are taken from that
\* line, no further line is read, and the call succeeds.
C15_BothFromOneLine ==
    (/\ ppc = "done"
     /\ DurationLines # {}
     /\ SetMin(DurationLines) \in UncertaintyLines) =>
        /\ perr = nil
        /\ FloatEq(scan.Runtime,
                   ValueIn(SetMin(DurationLines), match_duration_exp))
        /\ FloatEq(scan.Uncertainty,
                   ValueIn(SetMin(DurationLines), match_uncertainty_exp))
        /\ scan.reads = SetMin(DurationLines)
        /\ scan.found_params = 2

C15_Witness ==
    /\ ppc = "done"
    /\ file = <<LineOther, LineBoth, LineUncertainty2>>
    /\ perr = nil
    /\ FloatEq(scan.Runtime, Float(1234567, 1))
    /\ FloatEq(scan.Uncertainty, Float(345, 100))
    /\ scan.reads = 2

\* the position in benchmarks (the order Init_Benchmarks returned) of the
\* benchmark named n
DiscoveryIndex(n) == CHOOSE k \in 1..Len(benchmarks) : benchmarks[k].Name = n

\* C16: while main is in the loop of line 479, and after it, the unevaluated
\* benchmarks are in the order Init_Benchmarks returned them; those before
\* the position of the loop have gone through compile, measurement and a
\* successful parse, those after it have had no compile, measurement or
\* parse at all, and the one at the position has had none before its turn;
\* the processes spawned and parser calls made for the unevaluated
\* benchmarks follow one another in that order, each process having exited
\* (cmd.Run) before the next event.
C16_Sequential ==
    (\/ pc \in {"Evaluate", "exit"}
     \/ pc = "fatal" /\ err.prefix \in EvaluateErrors) =>
        /\ \A j, l \in 1..Len(unevaluated) :
               j < l => unevaluated[j] < unevaluated[l]
        /\ \A j \in 1..Len(unevaluated) :
               LET ph == PhasesOf(benchmarks[unevaluated[j]].Name)
               IN  /\ j < next =>
                          /\ ph # <<>>
                          /\ ph[Len(ph)].op = "parse"
                          /\ ph[Len(ph)].res = "ok"
                   /\ j > next => ph = <<>>
                   /\ (j = next /\ pc = "Evaluate") => ph = <<>>
        /\ \A a, b \in 1..Len(events) :
               (/\ a < b
                /\ events[a].name \in UnevaluatedNames
                /\ events[b].name \in UnevaluatedNames) =>
                   DiscoveryIndex(events[a].name) <= DiscoveryIndex(events[b].name)

\* two unevaluated benchmarks, the first compiled, measured and parsed, the
\* second compiled and measured after it
C16_Witness ==
    /\ Len(unevaluated) = 2
    /\ Len(events) >= 5
    /\ events[1] = Event("cc", benchmarks[unevaluated[1]].Name, "ok")
    /\ events[3] = Event("parse", benchmarks[unevaluated[1]].Name, "ok")
    /\ events[4] = Event("cc", benchmarks[unevaluated[2]].Name, "ok")
    /\ events[5].op = "perf"
    /\ events[5].name = benchmarks[unevaluated[2]].Name

\* Evaluate_Benchmark has returned an error for the benchmark at the
\* position of the loop of line 479
EvaluateFailed ==
    /\ pc = "fatal"
    /\ err.prefix \in EvaluateErrors
    /\ next <= Len(unevaluated)

UnparsableReports ==
    {report \in ToolReports :
        ScanResult(ScanAll(ScanStart(Zero, Zero), report)) # nil}

\* the results directory holds, for a sub-directory of the source root, a
\* report that cannot be parsed
UnparsableReport ==
    /\ fs.src = "dir"
    /\ fs.cwd.stats = "dir"
    /\ \E i \in Entries :
          /\ fs.root[i].isDir
          /\ ReportName(i) \in DOMAIN fs.stats
          /\ fs.stats[ReportName(i)] \in UnparsableReports

\* C18: no step of main spawns the measurement tool for a benchmark whose
\* <name>.txt is in the results directory, or the compiler for a benchmark
\* with an entry in the binaries directory, and no existing report or binary
\* is replaced or removed.  Hence a report that cannot be parsed stays as it
\* is: every run started over it passes Init_Env and Init_Benchmarks and
\* fails in Get_Unevaluated_Benchmarks with "Unable to read results",
\* without having spawned any process.
C18_NoOverwrite ==
    [][/\ \A i \in Entries :
             /\ StepHas("perf", EntryName(i)) =>
                    ReportName(i) \notin DOMAIN fs.stats
             /\ StepHas("cc", EntryName(i)) => EntryName(i) \notin fs.bin
       /\ \A f \in DOMAIN fs.stats :
             f \in DOMAIN fs'.stats /\ fs'.stats[f] = fs.stats[f]
       /\ fs.bin \subseteq fs'.bin
       /\ UnparsableReport =>
             /\ fs'.src = fs.src
             /\ fs'.root = fs.root
             /\ fs'.cwd.stats = fs.cwd.stats
             /\ pc = "Init_Env" => pc' = "Init_Benchmarks"
             /\ pc = "Init_Benchmarks" => pc' = "Get_Unevaluated_Benchmarks"
             /\ pc = "Get_Unevaluated_Benchmarks" =>
                    /\ pc' = "fatal"
                    /\ err'.prefix = "Unable to read results"
                    /\ Spawns(events') = <<>>
                    /\ fs' = fs]_vars

\* a run that measured a benchmark and could not parse the report, and the
\* next run, which failed in Get_Unevaluated_Benchmarks on that report
C18_Witness ==
    /\ run = 2
    /\ prev.status = "fatal"
    /\ prev.err.prefix = "Unable to read results for"
    /\ prev.spawns >= 1
    /\ pc = "fatal"
    /\ err.prefix = "Unable to read results"
    /\ UnparsableReport
    /\ Spawns(events) = <<>>

\* some line of the report matches the expression and gives the value
AssignedFrom(report, exp, value) ==
    \E i \in 1..Len(report) :
        /\ match_exp(report[i], exp).ok
        /\ FloatEq(value, get_float(match_exp(report[i], exp).match))

\* C19 as claimed: when main has gone through its printing loop, one line
\* has been printed for every discovered benchmark, in discovery order; for
\* each of them get_benchmark_results has returned success exactly once in
\* this run, and the Runtime and the Uncertainty printed are each the value
\* of a match in the benchmark's report.
C19_PrintedAssigned ==
    pc = "exit" =>
        /\ Len(printed) = Len(benchmarks)
        /\ \A k \in 1..Len(benchmarks) :
              LET n == benchmarks[k].Name
                  report == fs.stats[n \o SuffixTxt]
              IN  /\ printed[k] = PrintLine(benchmarks[k])
                  /\ ParseCalls(events, n) = 1
                  /\ \E e \in 1..Len(events) : events[e] = Event("parse", n, "ok")
                  /\ AssignedFrom(report, match_duration_exp, printed[k].Runtime)
                  /\ AssignedFrom(report, match_uncertainty_exp,
                                  printed[k].Uncertainty)
====
